---------------------------- MODULE Spec2Model ----------------------------
(***************************************************************************)
(* CachedEnforcer (casbin): a decision cache in front of the Enforcer.     *)
(* The model follows enforcer_cached.go step by step: every access to a    *)
(* shared object (the atomic enable flag, the RWMutex, the cache store,    *)
(* the embedded Enforcer) is one step of the calling goroutine.            *)
(***************************************************************************)
EXTENDS Naturals, Sequences, FiniteSets, TLC

(***************************************************************************)
(* Bounds of the model.                                                    *)
(***************************************************************************)
NumProcs == 2
MaxExpire == 1
MaxBatch == 2
MaxKeyLen == 2
MaxCalls == 3

Procs == 1..NumProcs

(***************************************************************************)
(* Dynamic values (interface{}): a string, some other value (a request     *)
(* context struct), or the nil interface.                                  *)
(***************************************************************************)
S(v) == [t |-> "string", v |-> v]
Ctx == [t |-> "other", v |-> "ctx"]
NilValue == [t |-> "nil", v |-> ""]

\* Rule tuples ([]string) callers pass to RemovePolicies.
Rules == {<<"a">>, <<"b", "b">>}
\* Rule tuples the policy file may hold.
PolicyRules == {<<"a">>, <<"a", "b">>}
\* Parameter lists callers pass to Enforce and RemovePolicy.
Requests == {<<S("a")>>, <<S("a"), S("b")>>, <<S("a$$b")>>, <<S("a"), Ctx>>}

RECURSIVE SeqsUpTo(_, _)
SeqsUpTo(set, n) ==
  IF n = 0 THEN {<<>>}
  ELSE LET shorter == SeqsUpTo(set, n - 1)
       IN  shorter \cup {Append(s, x) : s \in {t \in shorter : Len(t) = n - 1}, x \in set}

Batches == SeqsUpTo(Rules, MaxBatch)

\* []string -> []interface{}
ToValues(rule) == [i \in 1..Len(rule) |-> S(rule[i])]

ErrNil == "nil"
ErrNoSuchKey == "ErrNoSuchKey"
ErrBackend == "ErrBackend"
ErrEngine == "ErrEngine"

VARIABLES
  enableCache,  \* e.enableCache (int32, atomic)
  expireTime,   \* e.expireTime
  cache,        \* the content of the store e.cache points to
  storeKind,    \* which persist.Cache implementation e.cache is
  readers,      \* goroutines holding e.locker for reading
  writer,       \* goroutine holding e.locker for writing, 0 if none
  policy,       \* the rule set of the embedded Enforcer
  pc,           \* position of each goroutine
  enabled,      \* the flag value the call loaded
  rvals,        \* parameters of the Enforce / RemovePolicy call
  rules,        \* the batch of the RemovePolicies call
  irule,        \* RemovePolicies' parameter buffer
  idx,          \* RemovePolicies' loop position
  key,          \* the key the call built
  res,          \* the boolean the call returns
  err,          \* the error the call returns
  calls,        \* history: what the engine returned to the call, per invocation
  since,        \* history: a decision was stored since the call's invalidation
  settled,      \* history: decisions returned through the cache and not invalidated
  resOld,       \* history: the computed decision predates a policy mutation
  stale,        \* history: cached keys whose decision predates a policy mutation
  fault,        \* fatal runtime error, "none" while running
  started       \* number of calls made so far

shared == <<enableCache, expireTime, cache, storeKind, readers, writer, policy>>
locals == <<pc, enabled, rvals, rules, irule, idx, key, res, err>>
history == <<calls, since, settled, resOld, stale>>
vars == <<shared, locals, history, fault, started>>

(***************************************************************************)
(* getKey: the key is every string followed by "$$"; any value that is not *)
(* a string makes the list not cacheable.                                  *)
(***************************************************************************)
RECURSIVE getKeyFrom(_, _, _)
getKeyFrom(params, i, acc) ==
  IF i > Len(params) THEN [key |-> acc, ok |-> TRUE]
  ELSE IF params[i].t = "string"
       THEN getKeyFrom(params, i + 1, (acc \o params[i].v) \o "$$")
       ELSE [key |-> "", ok |-> FALSE]

\* Mutant: a value that is not a string is skipped instead of ending the key.
RECURSIVE getKeySkipping(_, _, _)
getKeySkipping(params, i, acc) ==
  IF i > Len(params) THEN [key |-> acc, ok |-> TRUE]
  ELSE IF params[i].t = "string"
       THEN getKeySkipping(params, i + 1, (acc \o params[i].v) \o "$$")
       ELSE getKeySkipping(params, i + 1, acc)

getKey_SkipNonString(params) == getKeySkipping(params, 1, "")

\* Mutant: the delimiter is written between the strings, not after each of them.
RECURSIVE getKeyJoining(_, _, _)
getKeyJoining(params, i, acc) ==
  IF i > Len(params) THEN [key |-> acc, ok |-> TRUE]
  ELSE IF params[i].t = "string"
       THEN getKeyJoining(params, i + 1,
                          (IF i > 1 THEN acc \o "$$" ELSE acc) \o params[i].v)
       ELSE [key |-> "", ok |-> FALSE]

getKey_Join(params) == getKeyJoining(params, 1, "")

getKey(params) == getKeyFrom(params, 1, "")

(***************************************************************************)
(* The store.  DefaultCache is a map[string]bool; any other persist.Cache  *)
(* (storeKind "backend") may also fail with an error of its own and then   *)
(* leaves its content as it was.  Each operation gives the set of outcomes *)
(* [cache, value, err] it can have.  DefaultCache.Set drops its extra      *)
(* argument, the expire time, so an entry is a key and a boolean.          *)
(***************************************************************************)
Has(c, k) == k \in DOMAIN c
Put(c, k, v) == [x \in DOMAIN c \cup {k} |-> IF x = k THEN v ELSE c[x]]
Drop(c, k) == [x \in DOMAIN c \ {k} |-> c[x]]
EmptyCache == [x \in {} |-> FALSE]

BackendFailure(kind, c) ==
  IF kind = "backend" THEN {[cache |-> c, value |-> FALSE, err |-> ErrBackend]} ELSE {}

\* Mutant: Set only overwrites an entry that exists.
CacheSet_UpdateOnly(kind, c, k, v) ==
  {[cache |-> IF Has(c, k) THEN Put(c, k, v) ELSE c, value |-> v, err |-> ErrNil]}
  \cup BackendFailure(kind, c)

CacheSet(kind, c, k, v) ==
  {[cache |-> Put(c, k, v), value |-> v, err |-> ErrNil]} \cup BackendFailure(kind, c)

CacheGet(kind, c, k) ==
  (IF Has(c, k)
   THEN {[cache |-> c, value |-> c[k], err |-> ErrNil]}
   ELSE {[cache |-> c, value |-> FALSE, err |-> ErrNoSuchKey]})
  \cup BackendFailure(kind, c)

\* Mutant: Delete finds the key and leaves it in the map.
CacheDelete_Keep(kind, c, k) ==
  (IF Has(c, k)
   THEN {[cache |-> c, value |-> FALSE, err |-> ErrNil]}
   ELSE {[cache |-> c, value |-> FALSE, err |-> ErrNoSuchKey]})
  \cup BackendFailure(kind, c)

CacheDelete(kind, c, k) ==
  (IF Has(c, k)
   THEN {[cache |-> Drop(c, k), value |-> FALSE, err |-> ErrNil]}
   ELSE {[cache |-> c, value |-> FALSE, err |-> ErrNoSuchKey]})
  \cup BackendFailure(kind, c)

\* Mutant: Clear assigns the new map to a copy of the receiver.
CacheClear_Local(kind, c) ==
  {[cache |-> c, value |-> FALSE, err |-> ErrNil]} \cup BackendFailure(kind, c)

CacheClear(kind, c) ==
  {[cache |-> EmptyCache, value |-> FALSE, err |-> ErrNil]} \cup BackendFailure(kind, c)

(***************************************************************************)
(* The embedded Enforcer: an access-control list.  A request is allowed    *)
(* when a rule of the same length agrees with all its string parameters.   *)
(* Every operation may fail and then changes nothing.                      *)
(***************************************************************************)
Decide(pol, params) ==
  \E rule \in pol :
    /\ Len(rule) = Len(params)
    /\ \A i \in 1..Len(rule) : params[i].t = "string" => params[i].v = rule[i]

EngineEnforce(pol, params) ==
  {[value |-> Decide(pol, params), err |-> ErrNil]}
  \cup {[value |-> b, err |-> ErrEngine] : b \in BOOLEAN}

StringsOf(params) == [i \in 1..Len(params) |-> params[i].v]

EngineRemovePolicy(pol, params) ==
  LET rule == StringsOf(params)
      hit == getKey(params).ok /\ rule \in pol
  IN  {[policy |-> IF hit THEN pol \ {rule} ELSE pol, value |-> hit, err |-> ErrNil],
       [policy |-> pol, value |-> FALSE, err |-> ErrEngine]}

RuleSet(batch) == {batch[i] : i \in 1..Len(batch)}

EngineRemovePolicies(pol, batch) ==
  LET hit == batch # <<>> /\ RuleSet(batch) \subseteq pol
  IN  {[policy |-> IF hit THEN pol \ RuleSet(batch) ELSE pol, value |-> hit, err |-> ErrNil],
       [policy |-> pol, value |-> FALSE, err |-> ErrEngine]}

EngineLoadPolicy(pol) ==
  {[policy |-> loaded, err |-> ErrNil] : loaded \in SUBSET PolicyRules}
  \cup {[policy |-> pol, err |-> ErrEngine]}

(***************************************************************************)
(* NewCachedEnforcer: caching on, an empty DefaultCache, a fresh lock; the *)
(* Enforcer has loaded some policy.                                        *)
(***************************************************************************)
Init ==
  /\ enableCache = 1
  /\ expireTime = 0
  /\ cache = EmptyCache
  /\ storeKind = "default"
  /\ readers = {}
  /\ writer = 0
  /\ policy \in SUBSET PolicyRules
  /\ pc = [p \in Procs |-> "idle"]
  /\ enabled = [p \in Procs |-> FALSE]
  /\ rvals = [p \in Procs |-> <<>>]
  /\ rules = [p \in Procs |-> <<>>]
  /\ irule = [p \in Procs |-> <<>>]
  /\ idx = [p \in Procs |-> 0]
  /\ key = [p \in Procs |-> ""]
  /\ res = [p \in Procs |-> FALSE]
  /\ err = [p \in Procs |-> ErrNil]
  /\ calls = [p \in Procs |-> <<>>]
  /\ since = [p \in Procs |-> FALSE]
  /\ settled = EmptyCache
  /\ resOld = [p \in Procs |-> FALSE]
  /\ stale = {}
  /\ fault = "none"
  /\ started = 0

Running == fault = "none"

(***************************************************************************)
(* History bookkeeping.  A goroutine is in its invalidation window from    *)
(* first Delete/Clear until it returns; a successful Set is noted by every *)
(* goroutine that is in its window.                                        *)
(***************************************************************************)
WindowPcs == {"lp_reload", "lp_ret", "rp_engine", "rp_ret", "rps_loop", "rps_engine",
              "rps_ret", "inv_ret"}

InWindow(q) ==
  /\ pc[q] \in WindowPcs
  /\ enabled[q] \/ pc[q] = "inv_ret"
  /\ pc[q] = "rps_loop" => idx[q] > 1

NoteSet == [q \in Procs |-> since[q] \/ InWindow(q)]

\* The computed decisions not yet stored: after the engine call, before the Set.
Computed(q) == pc[q] \in {"enf_wlock", "enf_set"}

\* A policy mutation whose call invalidated the keys in K has taken effect.
MarkComputed(K) == [q \in Procs |-> resOld[q] \/ (Computed(q) /\ key[q] \in K)]
MarkCached(K) == stale \cup (DOMAIN cache \cap K)

(***************************************************************************)
(* Enforce                                                                 *)
(***************************************************************************)
\* Mutant: Enforce looks the key up whatever flag it loaded.
Enforce_Call_IgnoreFlag(p, params) ==
  LET flag == enableCache # 0
      k == getKey(params)
  IN  /\ Running
      /\ started < MaxCalls
      /\ started' = started + 1
      /\ pc[p] = "idle"
      /\ pc' = [pc EXCEPT ![p] = IF k.ok THEN "enf_rlock" ELSE "enf_direct"]
      /\ enabled' = [enabled EXCEPT ![p] = flag]
      /\ rvals' = [rvals EXCEPT ![p] = params]
      /\ key' = [key EXCEPT ![p] = k.key]
      /\ UNCHANGED <<shared, rules, irule, idx, res, err, history, fault>>

\* A call starts while fewer than MaxCalls calls have been made.
\* lines 64-71: load the flag, build the key.
Enforce_Call(p, params) ==
  LET flag == enableCache # 0
      k == getKey(params)
  IN  /\ Running
      /\ started < MaxCalls
      /\ started' = started + 1
      /\ pc[p] = "idle"
      /\ pc' = [pc EXCEPT ![p] = IF flag /\ k.ok THEN "enf_rlock" ELSE "enf_direct"]
      /\ enabled' = [enabled EXCEPT ![p] = flag]
      /\ rvals' = [rvals EXCEPT ![p] = params]
      /\ key' = [key EXCEPT ![p] = IF flag THEN k.key ELSE ""]
      /\ UNCHANGED <<shared, rules, irule, idx, res, err, history, fault>>

\* lines 65 and 70: return e.Enforcer.Enforce(rvals...)
Enforce_Direct(p) ==
  /\ Running
  /\ pc[p] = "enf_direct"
  /\ \E out \in EngineEnforce(policy, rvals[p]) :
       /\ res' = [res EXCEPT ![p] = out.value]
       /\ err' = [err EXCEPT ![p] = out.err]
       /\ calls' = [calls EXCEPT ![p] = Append(@, out)]
  /\ pc' = [pc EXCEPT ![p] = "enf_ret"]
  /\ UNCHANGED <<shared, enabled, rvals, rules, irule, idx, key, since, settled, resOld,
                 stale, fault, started>>

\* line 128: e.locker.RLock()
getCachedResult_RLock(p) ==
  /\ Running
  /\ pc[p] = "enf_rlock"
  /\ writer = 0
  /\ readers' = readers \cup {p}
  /\ pc' = [pc EXCEPT ![p] = "enf_get"]
  /\ UNCHANGED <<enableCache, expireTime, cache, storeKind, writer, policy, enabled, rvals,
                 rules, irule, idx, key, res, err, history, fault, started>>

\* Mutant: every error of Get is taken for a miss.
getCachedResult_Get_MissOnError(p) ==
  /\ Running
  /\ pc[p] = "enf_get"
  /\ \E out \in CacheGet(storeKind, cache, key[p]) :
       /\ cache' = out.cache
       /\ IF out.err # ErrNil
          THEN /\ pc' = [pc EXCEPT ![p] = "enf_engine"]
               /\ UNCHANGED <<res, err, settled>>
          ELSE /\ pc' = [pc EXCEPT ![p] = "enf_ret"]
               /\ res' = [res EXCEPT ![p] = out.value]
               /\ err' = [err EXCEPT ![p] = out.err]
               /\ settled' = Put(settled, key[p], out.value)
  /\ readers' = readers \ {p}
  /\ UNCHANGED <<enableCache, expireTime, storeKind, writer, policy, enabled, rvals, rules,
                 irule, idx, key, calls, since, resOld, stale, fault, started>>

\* Mutant: the read lock is released on the return paths only, not on a miss.
getCachedResult_Get_KeepLock(p) ==
  /\ Running
  /\ pc[p] = "enf_get"
  /\ \E out \in CacheGet(storeKind, cache, key[p]) :
       /\ cache' = out.cache
       /\ IF out.err = ErrNoSuchKey
          THEN /\ pc' = [pc EXCEPT ![p] = "enf_engine"]
               /\ readers' = readers
               /\ UNCHANGED <<res, err, settled>>
          ELSE /\ pc' = [pc EXCEPT ![p] = "enf_ret"]
               /\ readers' = readers \ {p}
               /\ res' = [res EXCEPT ![p] = out.value]
               /\ err' = [err EXCEPT ![p] = out.err]
               /\ settled' = IF out.err = ErrNil THEN Put(settled, key[p], out.value)
                             ELSE settled
  /\ UNCHANGED <<enableCache, expireTime, storeKind, writer, policy, enabled, rvals, rules,
                 irule, idx, key, calls, since, resOld, stale, fault, started>>

\* lines 129-130 and 73-77: e.cache.Get(key), RUnlock, and the branch on its error.
getCachedResult_Get(p) ==
  /\ Running
  /\ pc[p] = "enf_get"
  /\ \E out \in CacheGet(storeKind, cache, key[p]) :
       /\ cache' = out.cache
       /\ IF out.err = ErrNoSuchKey
          THEN /\ pc' = [pc EXCEPT ![p] = "enf_engine"]
               /\ UNCHANGED <<res, err, settled>>
          ELSE /\ pc' = [pc EXCEPT ![p] = "enf_ret"]
               /\ res' = [res EXCEPT ![p] = out.value]
               /\ err' = [err EXCEPT ![p] = out.err]
               /\ settled' = IF out.err = ErrNil THEN Put(settled, key[p], out.value)
                             ELSE settled
  /\ readers' = readers \ {p}
  /\ UNCHANGED <<enableCache, expireTime, storeKind, writer, policy, enabled, rvals, rules,
                 irule, idx, key, calls, since, resOld, stale, fault, started>>

\* Mutant: the decision is stored whether or not the engine failed.
Enforce_Engine_CacheOnError(p) ==
  /\ Running
  /\ pc[p] = "enf_engine"
  /\ \E out \in EngineEnforce(policy, rvals[p]) :
       /\ calls' = [calls EXCEPT ![p] = Append(@, out)]
       /\ err' = [err EXCEPT ![p] = out.err]
       /\ res' = [res EXCEPT ![p] = out.value]
  /\ pc' = [pc EXCEPT ![p] = "enf_wlock"]
  /\ UNCHANGED <<shared, enabled, rvals, rules, irule, idx, key, since, settled, resOld,
                 stale, fault, started>>

\* lines 79-82: the engine computes the decision; its error is returned with false.
Enforce_Engine(p) ==
  /\ Running
  /\ pc[p] = "enf_engine"
  /\ \E out \in EngineEnforce(policy, rvals[p]) :
       /\ calls' = [calls EXCEPT ![p] = Append(@, out)]
       /\ err' = [err EXCEPT ![p] = out.err]
       /\ IF out.err # ErrNil
          THEN /\ res' = [res EXCEPT ![p] = FALSE]
               /\ pc' = [pc EXCEPT ![p] = "enf_ret"]
          ELSE /\ res' = [res EXCEPT ![p] = out.value]
               /\ pc' = [pc EXCEPT ![p] = "enf_wlock"]
  /\ UNCHANGED <<shared, enabled, rvals, rules, irule, idx, key, since, settled, resOld,
                 stale, fault, started>>

\* line 142: e.locker.Lock()
setCachedResult_Lock(p) ==
  /\ Running
  /\ pc[p] = "enf_wlock"
  /\ writer = 0
  /\ readers = {}
  /\ writer' = p
  /\ pc' = [pc EXCEPT ![p] = "enf_set"]
  /\ UNCHANGED <<enableCache, expireTime, cache, storeKind, readers, policy, enabled, rvals,
                 rules, irule, idx, key, res, err, history, fault, started>>

\* lines 143-144 and 84-85: e.cache.Set(key, res, expireTime), Unlock, return res, err.
setCachedResult_Set(p) ==
  /\ Running
  /\ pc[p] = "enf_set"
  /\ \E out \in CacheSet(storeKind, cache, key[p], res[p]) :
       /\ cache' = out.cache
       /\ err' = [err EXCEPT ![p] = out.err]
       /\ IF out.err = ErrNil
          THEN /\ settled' = Put(settled, key[p], res[p])
               /\ since' = NoteSet
               /\ stale' = IF resOld[p] THEN stale \cup {key[p]} ELSE stale \ {key[p]}
          ELSE UNCHANGED <<settled, since, stale>>
  /\ writer' = 0
  /\ resOld' = [resOld EXCEPT ![p] = FALSE]
  /\ pc' = [pc EXCEPT ![p] = "enf_ret"]
  /\ UNCHANGED <<enableCache, expireTime, storeKind, readers, policy, enabled, rvals, rules,
                 irule, idx, key, res, calls, fault, started>>

(***************************************************************************)
(* The caller takes the result: the goroutine is free for its next call.   *)
(***************************************************************************)
RetPcs == {"enf_ret", "lp_ret", "rp_ret", "rps_ret", "inv_ret"}

Return(p) ==
  /\ Running
  /\ pc[p] \in RetPcs
  /\ pc' = [pc EXCEPT ![p] = "idle"]
  /\ enabled' = [enabled EXCEPT ![p] = FALSE]
  /\ rvals' = [rvals EXCEPT ![p] = <<>>]
  /\ rules' = [rules EXCEPT ![p] = <<>>]
  /\ irule' = [irule EXCEPT ![p] = <<>>]
  /\ idx' = [idx EXCEPT ![p] = 0]
  /\ key' = [key EXCEPT ![p] = ""]
  /\ res' = [res EXCEPT ![p] = FALSE]
  /\ err' = [err EXCEPT ![p] = ErrNil]
  /\ calls' = [calls EXCEPT ![p] = <<>>]
  /\ since' = [since EXCEPT ![p] = FALSE]
  /\ UNCHANGED <<shared, settled, resOld, stale, fault, started>>

(***************************************************************************)
(* LoadPolicy                                                              *)
(***************************************************************************)
\* line 89: load the flag.
LoadPolicy_Call(p) ==
  /\ Running
  /\ started < MaxCalls
  /\ started' = started + 1
  /\ pc[p] = "idle"
  /\ enabled' = [enabled EXCEPT ![p] = enableCache # 0]
  /\ pc' = [pc EXCEPT ![p] = IF enableCache # 0 THEN "lp_clear" ELSE "lp_reload"]
  /\ UNCHANGED <<shared, rvals, rules, irule, idx, key, res, err, history, fault>>

\* Mutant: the error of Clear is dropped and the reload goes ahead.
LoadPolicy_Clear_FailOpen(p) ==
  /\ Running
  /\ pc[p] = "lp_clear"
  /\ \E out \in CacheClear(storeKind, cache) :
       /\ cache' = out.cache
       /\ err' = [err EXCEPT ![p] = out.err]
       /\ IF out.err = ErrNil
          THEN settled' = EmptyCache /\ stale' = {}
          ELSE UNCHANGED <<settled, stale>>
  /\ pc' = [pc EXCEPT ![p] = "lp_reload"]
  /\ since' = [since EXCEPT ![p] = FALSE]
  /\ UNCHANGED <<enableCache, expireTime, storeKind, readers, writer, policy, enabled, rvals,
                 rules, irule, idx, key, res, calls, resOld, fault, started>>

\* lines 90-92: e.cache.Clear(), without the lock.
LoadPolicy_Clear(p) ==
  /\ Running
  /\ pc[p] = "lp_clear"
  /\ \E out \in CacheClear(storeKind, cache) :
       /\ cache' = out.cache
       /\ err' = [err EXCEPT ![p] = out.err]
       /\ IF out.err = ErrNil
          THEN /\ pc' = [pc EXCEPT ![p] = "lp_reload"]
               /\ settled' = EmptyCache
               /\ stale' = {}
          ELSE /\ pc' = [pc EXCEPT ![p] = "lp_ret"]
               /\ UNCHANGED <<settled, stale>>
  /\ since' = [since EXCEPT ![p] = FALSE]
  /\ UNCHANGED <<enableCache, expireTime, storeKind, readers, writer, policy, enabled, rvals,
                 rules, irule, idx, key, res, calls, resOld, fault, started>>

AllKeys == {getKey(r).key : r \in {q \in Requests : getKey(q).ok}}

\* line 94: return e.Enforcer.LoadPolicy()
LoadPolicy_Reload(p) ==
  /\ Running
  /\ pc[p] = "lp_reload"
  /\ \E out \in EngineLoadPolicy(policy) :
       /\ policy' = out.policy
       /\ err' = [err EXCEPT ![p] = out.err]
       /\ calls' = [calls EXCEPT ![p] = Append(@, [value |-> FALSE, err |-> out.err])]
       /\ IF enabled[p] /\ out.policy # policy
          THEN /\ resOld' = MarkComputed(AllKeys)
               /\ stale' = MarkCached(AllKeys)
          ELSE UNCHANGED <<resOld, stale>>
  /\ pc' = [pc EXCEPT ![p] = "lp_ret"]
  /\ UNCHANGED <<enableCache, expireTime, cache, storeKind, readers, writer, enabled, rvals,
                 rules, irule, idx, key, res, since, settled, fault, started>>

(***************************************************************************)
(* RemovePolicy                                                            *)
(***************************************************************************)
\* lines 98-100: load the flag, build the key.
RemovePolicy_Call(p, params) ==
  LET flag == enableCache # 0
      k == getKey(params)
  IN  /\ Running
      /\ started < MaxCalls
      /\ started' = started + 1
      /\ pc[p] = "idle"
      /\ pc' = [pc EXCEPT ![p] = IF flag /\ k.ok THEN "rp_delete" ELSE "rp_engine"]
      /\ enabled' = [enabled EXCEPT ![p] = flag]
      /\ rvals' = [rvals EXCEPT ![p] = params]
      /\ key' = [key EXCEPT ![p] = IF flag THEN k.key ELSE ""]
      /\ UNCHANGED <<shared, rules, irule, idx, res, err, history, fault>>

\* Mutant: every error of Delete is ignored.
RemovePolicy_Delete_FailOpen(p) ==
  /\ Running
  /\ pc[p] = "rp_delete"
  /\ \E out \in CacheDelete(storeKind, cache, key[p]) :
       /\ cache' = out.cache
       /\ IF out.err \in {ErrNil, ErrNoSuchKey}
          THEN /\ settled' = Drop(settled, key[p])
               /\ stale' = stale \ {key[p]}
          ELSE UNCHANGED <<settled, stale>>
  /\ pc' = [pc EXCEPT ![p] = "rp_engine"]
  /\ since' = [since EXCEPT ![p] = FALSE]
  /\ UNCHANGED <<enableCache, expireTime, storeKind, readers, writer, policy, enabled, rvals,
                 rules, irule, idx, key, res, err, calls, resOld, fault, started>>

\* lines 101-103: e.cache.Delete(key), without the lock.
RemovePolicy_Delete(p) ==
  /\ Running
  /\ pc[p] = "rp_delete"
  /\ \E out \in CacheDelete(storeKind, cache, key[p]) :
       /\ cache' = out.cache
       /\ IF out.err \in {ErrNil, ErrNoSuchKey}
          THEN /\ pc' = [pc EXCEPT ![p] = "rp_engine"]
               /\ settled' = Drop(settled, key[p])
               /\ stale' = stale \ {key[p]}
               /\ UNCHANGED err
          ELSE /\ pc' = [pc EXCEPT ![p] = "rp_ret"]
               /\ err' = [err EXCEPT ![p] = out.err]
               /\ UNCHANGED <<settled, stale>>
  /\ since' = [since EXCEPT ![p] = FALSE]
  /\ UNCHANGED <<enableCache, expireTime, storeKind, readers, writer, policy, enabled, rvals,
                 rules, irule, idx, key, res, calls, resOld, fault, started>>

\* line 106: return e.Enforcer.RemovePolicy(params...)
RemovePolicy_Engine(p) ==
  /\ Running
  /\ pc[p] = "rp_engine"
  /\ \E out \in EngineRemovePolicy(policy, rvals[p]) :
       /\ policy' = out.policy
       /\ res' = [res EXCEPT ![p] = out.value]
       /\ err' = [err EXCEPT ![p] = out.err]
       /\ calls' = [calls EXCEPT ![p] = Append(@, [value |-> out.value, err |-> out.err])]
       /\ IF enabled[p] /\ out.policy # policy
          THEN /\ resOld' = MarkComputed({getKey(rvals[p]).key})
               /\ stale' = MarkCached({getKey(rvals[p]).key})
          ELSE UNCHANGED <<resOld, stale>>
  /\ pc' = [pc EXCEPT ![p] = "rp_ret"]
  /\ UNCHANGED <<enableCache, expireTime, cache, storeKind, readers, writer, enabled, rvals,
                 rules, irule, idx, key, since, settled, fault, started>>

(***************************************************************************)
(* RemovePolicies                                                          *)
(***************************************************************************)
\* lines 110-112: the empty batch and the disabled cache go straight to the engine;
\* otherwise irule is allocated with the length of the first rule.
RemovePolicies_Call(p, batch) ==
  LET loop == Len(batch) # 0 /\ enableCache # 0
  IN  /\ Running
      /\ started < MaxCalls
      /\ started' = started + 1
      /\ pc[p] = "idle"
      /\ pc' = [pc EXCEPT ![p] = IF loop THEN "rps_loop" ELSE "rps_engine"]
      /\ enabled' = [enabled EXCEPT ![p] = loop]
      /\ rules' = [rules EXCEPT ![p] = batch]
      /\ irule' = [irule EXCEPT ![p] =
                     IF loop THEN [i \in 1..Len(batch[1]) |-> NilValue] ELSE <<>>]
      /\ idx' = [idx EXCEPT ![p] = IF loop THEN 1 ELSE 0]
      /\ UNCHANGED <<shared, rvals, key, res, err, history, fault>>

\* lines 114-116: copy the rule over the buffer, element by element.
Overwrite(buf, rule) == [i \in 1..Len(buf) |-> IF i <= Len(rule) THEN S(rule[i]) ELSE buf[i]]

\* The key Enforce and RemovePolicy build for a rule.
RuleKey(rule) == getKey(ToValues(rule)).key

\* lines 113-121: one iteration: fill irule, build the key (its ok is dropped),
\* e.cache.Delete(key) without the lock.  A rule longer than irule indexes out of range.
RemovePolicies_Loop(p) ==
  LET rule == rules[p][idx[p]]
      buf == Overwrite(irule[p], rule)
      k == getKey(buf).key
      last == idx[p] = Len(rules[p])
  IN  /\ Running
      /\ pc[p] = "rps_loop"
      /\ IF Len(rule) > Len(irule[p])
         THEN /\ fault' = "index out of range"
              /\ UNCHANGED <<shared, locals, history, started>>
         ELSE /\ \E out \in CacheDelete(storeKind, cache, k) :
                   /\ cache' = out.cache
                   /\ IF out.err \in {ErrNil, ErrNoSuchKey}
                      THEN /\ pc' = [pc EXCEPT ![p] = IF last THEN "rps_engine" ELSE "rps_loop"]
                           /\ idx' = [idx EXCEPT ![p] = @ + 1]
                           /\ settled' = Drop(settled, RuleKey(rule))
                           /\ stale' = stale \ {k}
                           /\ UNCHANGED err
                      ELSE /\ pc' = [pc EXCEPT ![p] = "rps_ret"]
                           /\ err' = [err EXCEPT ![p] = out.err]
                           /\ UNCHANGED <<idx, settled, stale>>
              /\ irule' = [irule EXCEPT ![p] = buf]
              /\ key' = [key EXCEPT ![p] = k]
              /\ since' = [since EXCEPT ![p] = idx[p] > 1 /\ @]
              /\ UNCHANGED <<enableCache, expireTime, storeKind, readers, writer, policy,
                             enabled, rvals, rules, res, calls, resOld, fault, started>>

BatchKeys(batch) == {RuleKey(batch[i]) : i \in 1..Len(batch)}

\* line 124: return e.Enforcer.RemovePolicies(rules)
RemovePolicies_Engine(p) ==
  /\ Running
  /\ pc[p] = "rps_engine"
  /\ \E out \in EngineRemovePolicies(policy, rules[p]) :
       /\ policy' = out.policy
       /\ res' = [res EXCEPT ![p] = out.value]
       /\ err' = [err EXCEPT ![p] = out.err]
       /\ calls' = [calls EXCEPT ![p] = Append(@, [value |-> out.value, err |-> out.err])]
       /\ IF enabled[p] /\ out.policy # policy
          THEN /\ resOld' = MarkComputed(BatchKeys(rules[p]))
               /\ stale' = MarkCached(BatchKeys(rules[p]))
          ELSE UNCHANGED <<resOld, stale>>
  /\ pc' = [pc EXCEPT ![p] = "rps_ret"]
  /\ UNCHANGED <<enableCache, expireTime, cache, storeKind, readers, writer, enabled, rvals,
                 rules, irule, idx, key, since, settled, fault, started>>

(***************************************************************************)
(* InvalidateCache                                                         *)
(***************************************************************************)
InvalidateCache_Call(p) ==
  /\ Running
  /\ started < MaxCalls
  /\ started' = started + 1
  /\ pc[p] = "idle"
  /\ pc' = [pc EXCEPT ![p] = "inv_lock"]
  /\ UNCHANGED <<shared, enabled, rvals, rules, irule, idx, key, res, err, history, fault>>

\* line 162: e.locker.Lock()
InvalidateCache_Lock(p) ==
  /\ Running
  /\ pc[p] = "inv_lock"
  /\ writer = 0
  /\ readers = {}
  /\ writer' = p
  /\ pc' = [pc EXCEPT ![p] = "inv_clear"]
  /\ UNCHANGED <<enableCache, expireTime, cache, storeKind, readers, policy, enabled, rvals,
                 rules, irule, idx, key, res, err, history, fault, started>>

\* Mutant: InvalidateCache clears only while caching is enabled, as LoadPolicy does.
InvalidateCache_Clear_IfEnabled(p) ==
  /\ Running
  /\ pc[p] = "inv_clear"
  /\ \E out \in (IF enableCache # 0 THEN CacheClear(storeKind, cache)
                 ELSE {[cache |-> cache, value |-> FALSE, err |-> ErrNil]}) :
       /\ cache' = out.cache
       /\ err' = [err EXCEPT ![p] = out.err]
       /\ IF out.err = ErrNil
          THEN settled' = EmptyCache /\ stale' = {}
          ELSE UNCHANGED <<settled, stale>>
  /\ writer' = 0
  /\ since' = [since EXCEPT ![p] = FALSE]
  /\ pc' = [pc EXCEPT ![p] = "inv_ret"]
  /\ UNCHANGED <<enableCache, expireTime, storeKind, readers, policy, enabled, rvals, rules,
                 irule, idx, key, res, calls, resOld, fault, started>>

\* lines 163-164: e.cache.Clear(), Unlock.
InvalidateCache_Clear(p) ==
  /\ Running
  /\ pc[p] = "inv_clear"
  /\ \E out \in CacheClear(storeKind, cache) :
       /\ cache' = out.cache
       /\ err' = [err EXCEPT ![p] = out.err]
       /\ IF out.err = ErrNil
          THEN settled' = EmptyCache /\ stale' = {}
          ELSE UNCHANGED <<settled, stale>>
  /\ writer' = 0
  /\ since' = [since EXCEPT ![p] = FALSE]
  /\ pc' = [pc EXCEPT ![p] = "inv_ret"]
  /\ UNCHANGED <<enableCache, expireTime, storeKind, readers, policy, enabled, rvals, rules,
                 irule, idx, key, res, calls, resOld, fault, started>>

(***************************************************************************)
(* Configuration                                                           *)
(***************************************************************************)
\* Mutant: disabling the cache also empties it.
EnableCache_ClearOnDisable(p, enableCacheArg) ==
  /\ Running
  /\ pc[p] = "idle"
  /\ enableCache' = IF enableCacheArg THEN 1 ELSE 0
  /\ cache' = IF enableCacheArg THEN cache ELSE EmptyCache
  /\ UNCHANGED <<expireTime, storeKind, readers, writer, policy, locals, history, fault,
                 started>>

\* lines 53-59: atomic.StoreInt32(&e.enableCache, enabled)
EnableCache(p, enableCacheArg) ==
  /\ Running
  /\ pc[p] = "idle"
  /\ enableCache' = IF enableCacheArg THEN 1 ELSE 0
  /\ UNCHANGED <<expireTime, cache, storeKind, readers, writer, policy, locals, history, fault,
                 started>>

\* lines 133-135
SetExpireTime(p, expireTimeArg) ==
  /\ Running
  /\ pc[p] = "idle"
  /\ expireTime' = expireTimeArg
  /\ UNCHANGED <<enableCache, cache, storeKind, readers, writer, policy, locals, history, fault,
                 started>>

\* lines 137-139: e.cache = c, with c a new empty store of the given kind.
SetCache(p, kind) ==
  /\ Running
  /\ pc[p] = "idle"
  /\ cache' = EmptyCache
  /\ storeKind' = kind
  /\ settled' = EmptyCache
  /\ stale' = {}
  /\ UNCHANGED <<enableCache, expireTime, readers, writer, policy, locals, calls, since, resOld,
                 fault, started>>

(***************************************************************************)
(* DefaultCache is a Go map: a Delete made without the lock while another  *)
(* goroutine is inside a map operation is a data race, which the runtime   *)
(* may stop with a fatal error; otherwise the operations take effect in    *)
(* some order.                                                             *)
(***************************************************************************)
UnlockedMapWritePcs == {"rp_delete", "rps_loop"}
MapAccessPcs == {"enf_get", "enf_set", "rp_delete", "rps_loop"}

ConcurrentMapFault(p) ==
  /\ Running
  /\ storeKind = "default"
  /\ pc[p] \in UnlockedMapWritePcs
  /\ \E q \in Procs \ {p} : pc[q] \in MapAccessPcs
  /\ fault' = "concurrent map access"
  /\ UNCHANGED <<shared, locals, history, started>>

Next ==
  \E p \in Procs :
    \/ \E params \in Requests : Enforce_Call(p, params)
    \/ Enforce_Direct(p)
    \/ getCachedResult_RLock(p)
    \/ getCachedResult_Get(p)
    \/ Enforce_Engine(p)
    \/ setCachedResult_Lock(p)
    \/ setCachedResult_Set(p)
    \/ LoadPolicy_Call(p)
    \/ LoadPolicy_Clear(p)
    \/ LoadPolicy_Reload(p)
    \/ \E params \in Requests : RemovePolicy_Call(p, params)
    \/ RemovePolicy_Delete(p)
    \/ RemovePolicy_Engine(p)
    \/ \E batch \in Batches : RemovePolicies_Call(p, batch)
    \/ RemovePolicies_Loop(p)
    \/ RemovePolicies_Engine(p)
    \/ InvalidateCache_Call(p)
    \/ InvalidateCache_Lock(p)
    \/ InvalidateCache_Clear(p)
    \/ \E b \in BOOLEAN : EnableCache(p, b)
    \/ \E t \in 0..MaxExpire : SetExpireTime(p, t)
    \/ SetCache(p, "default")
    \/ ConcurrentMapFault(p)
    \/ Return(p)

Spec == Init /\ [][Next]_vars

(***************************************************************************)
(* Properties                                                              *)
(***************************************************************************)
EnforcePcs == {"enf_direct", "enf_rlock", "enf_get", "enf_engine", "enf_wlock", "enf_set",
               "enf_ret"}
NonString(params) == \E i \in 1..Len(params) : params[i].t # "string"
\* The goroutine has returned from an Enforce that missed, asked the engine and
\* stored the decision.
StoredBy(q) ==
  pc[q] = "enf_ret" /\ enabled[q] /\ ~NonString(rvals[q]) /\ Len(calls[q]) = 1 /\ err[q] = ErrNil
\* The goroutine takes the step.
Moves(p) == pc'[p] # pc[p]

\* C1: while no call is in progress, every decision that an Enforce call returned
\* through the cache, and that no LoadPolicy, RemovePolicy / RemovePolicies of its
\* key, InvalidateCache or SetCache has invalidated since, is what the lookup of
\* the next Enforce call for the same key gets, so that call returns it without
\* the engine.
C1_RepeatedEnforceHits ==
  (\A p \in Procs : pc[p] = "idle")
    => \A k \in DOMAIN settled :
         \A out \in CacheGet(storeKind, cache, k) :
           out.err = ErrNil /\ out.value = settled[k]

\* C2: when LoadPolicy has returned, no key is left in the store, whatever the
\* flag was, unless a decision has been stored since the call began.
C2_LoadPolicyLeavesNoKey ==
  \A p \in Procs : pc[p] = "lp_ret" /\ ~since[p] => cache = EmptyCache

\* C2 (amended): when LoadPolicy has returned after loading the flag as enabled
\* and clearing without error, the store holds no key unless a decision has been
\* stored since the Clear; a LoadPolicy that loaded the flag as disabled has
\* not touched the store.
C2_LoadPolicyClearsWhenEnabled ==
  /\ \A p \in Procs :
       pc[p] = "lp_ret" /\ enabled[p] /\ err[p] \in {ErrNil, ErrEngine} /\ ~since[p]
         => cache = EmptyCache
  /\ \A p \in Procs : pc[p] = "lp_clear" => enabled[p]

\* An Enforce stored its decision, then LoadPolicy cleared it and its reload failed.
C2_Witness ==
  \E p \in Procs, q \in Procs :
    /\ pc[p] = "lp_ret" /\ enabled[p] /\ err[p] = ErrEngine /\ ~since[p]
    /\ StoredBy(q)
    /\ cache = EmptyCache

\* C3: when RemovePolicy(p) has returned for string-only p, the key of p is not in
\* the store, whatever the flag was, unless a decision has been stored since the
\* call began.
C3_RemovePolicyLeavesNoKey ==
  \A p \in Procs :
    pc[p] = "rp_ret" /\ ~NonString(rvals[p]) /\ ~since[p]
      => ~Has(cache, getKey(rvals[p]).key)

\* C3 (amended): when RemovePolicy(p) has returned for string-only p after loading
\* the flag as enabled, the key of p is not in the store unless a decision has been
\* stored since its Delete.
C3_RemovePolicyDeletesWhenEnabled ==
  \A p \in Procs :
    pc[p] = "rp_ret" /\ ~NonString(rvals[p]) /\ enabled[p] /\ err[p] # ErrBackend /\ ~since[p]
      => ~Has(cache, getKey(rvals[p]).key)

\* An Enforce stored its decision, then RemovePolicy of the same parameters deleted it.
C3_Witness ==
  \E p \in Procs, q \in Procs :
    /\ pc[p] = "rp_ret" /\ enabled[p] /\ ~since[p]
    /\ StoredBy(q) /\ rvals[q] = rvals[p]
    /\ ~Has(cache, getKey(rvals[p]).key) /\ cache # EmptyCache

\* C4: when RemovePolicies(rules) has returned, the key of every rule of the batch
\* is absent from the store, unless a decision has been stored since its first Delete.
C4_RemovePoliciesDeletesEveryKey ==
  \A p \in Procs :
    pc[p] = "rps_ret" /\ enabled[p] /\ err[p] # ErrBackend /\ ~since[p]
      => \A k \in BatchKeys(rules[p]) : ~Has(cache, k)

\* C5: once every policy-mutating call has returned, the store holds no entry whose
\* decision the engine computed against the rule set from before a mutation that
\* invalidated the entry's key.
C5_NoStaleEntry ==
  (\A p \in Procs : pc[p] \notin {"lp_ret", "rp_ret", "rps_ret"}) => stale = {}

(***************************************************************************)
(* N concurrent Enforce calls with identical string-only parameters on a   *)
(* fixed rule set: every goroutine makes one call.                         *)
(***************************************************************************)
NextEnforce ==
  \E p \in Procs :
    \/ \E params \in Requests :
         /\ ~NonString(params)
         /\ \A q \in Procs : pc[q] # "idle" => rvals[q] = params
         /\ Enforce_Call(p, params)
    \/ getCachedResult_RLock(p)
    \/ getCachedResult_Get(p)
    \/ Enforce_Engine(p)
    \/ setCachedResult_Lock(p)
    \/ setCachedResult_Set(p)

SpecEnforce == Init /\ [][NextEnforce]_vars

\* C6: every concurrent identical Enforce call that returns without error returns
\* the engine's decision, and when all have returned and one of them succeeded the
\* store holds exactly one entry, the call's key with that decision.
C6_ConcurrentIdenticalEnforce ==
  /\ \A p \in Procs :
       pc[p] = "enf_ret" /\ err[p] = ErrNil => res[p] = Decide(policy, rvals[p])
  /\ (\A p \in Procs : pc[p] = "enf_ret")
       => \A p \in Procs :
            err[p] = ErrNil
              => cache = Put(EmptyCache, getKey(rvals[p]).key, Decide(policy, rvals[p]))

\* Every call missed, asked the engine and stored the decision true.
C6_Witness ==
  \A p \in Procs : StoredBy(p) /\ res[p]

\* C7: an Enforce with a parameter that is not a string goes to the engine, whatever
\* the flag: it never takes the lock or looks the key up, it returns what its one
\* engine call returned, and none of its steps changes the store or the lock.
C7_NonStringBypassesCache ==
  /\ [](\A p \in Procs :
          pc[p] \in EnforcePcs /\ NonString(rvals[p])
            => /\ pc[p] \in {"enf_direct", "enf_ret"}
               /\ pc[p] = "enf_direct" => calls[p] = <<>>
               /\ pc[p] = "enf_ret"
                    => calls[p] = <<[value |-> res[p], err |-> err[p]]>>)
  /\ [][\A p \in Procs :
          Moves(p) /\ ((pc[p] \in EnforcePcs /\ NonString(rvals[p]))
                       \/ (pc'[p] \in EnforcePcs /\ NonString(rvals'[p])))
            => cache' = cache /\ readers' = readers /\ writer' = writer]_vars

\* A request with a context value was allowed by the engine while caching was on
\* and the store held entries.
C7_Witness ==
  \E p \in Procs :
    /\ pc[p] = "enf_ret" /\ NonString(rvals[p]) /\ enabled[p]
    /\ res[p] /\ err[p] = ErrNil
    /\ cache # EmptyCache

\* C8: InvalidateCache's Clear empties the store whatever the flag is, the store is
\* still empty when the call has returned unless a decision has been stored since,
\* and an Enforce whose lookup does not find its key invokes the engine.
C8_InvalidateCacheEmptiesStore ==
  /\ [](\A p \in Procs : pc[p] = "inv_ret" /\ err[p] = ErrNil /\ ~since[p] => cache = EmptyCache)
  /\ [](\A p \in Procs : pc[p] \in {"enf_wlock", "enf_set"} => Len(calls[p]) = 1)
  /\ [][\A p \in Procs :
          /\ pc[p] = "inv_clear" /\ Moves(p) /\ err'[p] = ErrNil => cache' = EmptyCache
          /\ pc[p] = "enf_get" /\ Moves(p) /\ ~Has(cache, key[p]) /\ err'[p] = ErrNil
               => pc'[p] = "enf_engine"]_vars

\* An Enforce stored its decision and InvalidateCache removed it while caching was
\* disabled.
C8_Witness ==
  \E p \in Procs, q \in Procs :
    /\ pc[p] = "inv_ret" /\ ~since[p]
    /\ StoredBy(q)
    /\ enableCache = 0
    /\ cache = EmptyCache

\* C9: a step that changes the enable flag changes nothing else: the store's
\* entries, the expire time, the store, the lock and every call in progress are as
\* they were.
C9_EnableCacheChangesOnlyFlag ==
  [][enableCache' # enableCache
       => UNCHANGED <<expireTime, cache, storeKind, readers, writer, policy, locals, settled>>]_vars

\* Caching has been switched off while the store held an entry and a non-zero
\* expire time was configured.
C9_Witness ==
  /\ enableCache = 0
  /\ cache # EmptyCache
  /\ expireTime # 0
  /\ \E p \in Procs : StoredBy(p) /\ Has(cache, key[p])

\* C10: an Enforce that loaded the flag as disabled never takes the lock or looks
\* the key up, returns what its one engine call returned, decision and error, and
\* none of its steps changes the store or the lock.
C10_DisabledEnforceDelegates ==
  /\ [](\A p \in Procs :
          pc[p] \in EnforcePcs /\ ~enabled[p]
            => /\ pc[p] \in {"enf_direct", "enf_ret"}
               /\ pc[p] = "enf_direct" => calls[p] = <<>>
               /\ pc[p] = "enf_ret"
                    => calls[p] = <<[value |-> res[p], err |-> err[p]]>>)
  /\ [][\A p \in Procs :
          Moves(p) /\ ((pc[p] \in EnforcePcs /\ ~enabled[p])
                       \/ (pc'[p] \in EnforcePcs /\ ~enabled'[p]))
            => cache' = cache /\ readers' = readers /\ writer' = writer]_vars

\* With caching disabled the engine allowed a request whose key is in the store
\* with the decision false.
C10_Witness ==
  \E p \in Procs :
    /\ pc[p] = "enf_ret" /\ ~enabled[p] /\ ~NonString(rvals[p])
    /\ res[p] /\ err[p] = ErrNil
    /\ Has(cache, getKey(rvals[p]).key) /\ ~cache[getKey(rvals[p]).key]

(***************************************************************************)
(* The same program with a pluggable store: SetCache may install a         *)
(* persist.Cache whose operations can fail with an error of their own.     *)
(***************************************************************************)
NextBackend ==
  \/ Next
  \/ \E p \in Procs : SetCache(p, "backend")

SpecBackend == Init /\ [][NextBackend]_vars

\* The goroutine takes an iteration of RemovePolicies' loop.
LoopMoves(p) == pc[p] = "rps_loop" /\ (idx'[p] # idx[p] \/ pc'[p] # pc[p])

\* C11: only a successful evaluation goes on to the Set, and the step in which the
\* engine fails after a miss ends the call with the engine's error and the decision
\* false, leaving the store and the lock as they were.
C11_EngineErrorNotCached ==
  /\ [](\A p \in Procs :
          pc[p] \in {"enf_wlock", "enf_set"}
            => Len(calls[p]) = 1 /\ calls[p][1].err = ErrNil)
  /\ [][\A p \in Procs :
          pc[p] = "enf_engine" /\ Moves(p) /\ calls'[p][1].err # ErrNil
            => /\ pc'[p] = "enf_ret"
               /\ err'[p] = calls'[p][1].err
               /\ res'[p] = FALSE
               /\ cache' = cache /\ readers' = readers /\ writer' = writer]_vars

\* An Enforce missed, the engine failed, and the call's key is not in the store.
C11_Witness ==
  \E p \in Procs :
    /\ pc[p] = "enf_ret" /\ enabled[p] /\ ~NonString(rvals[p])
    /\ Len(calls[p]) = 1 /\ calls[p][1].err = ErrEngine
    /\ err[p] = ErrEngine /\ ~res[p]
    /\ ~Has(cache, key[p])

\* C12: the lookup step of Enforce goes on to the engine only when the key is not
\* in the store; when it ends the call with an error, that is the store's error,
\* the engine has not been invoked, and the store and the rule set are as they were.
C12_GetErrorPropagates ==
  [][\A p \in Procs :
       pc[p] = "enf_get" /\ Moves(p)
         => /\ pc'[p] \in {"enf_engine", "enf_ret"}
            /\ pc'[p] = "enf_engine" => ~Has(cache, key[p])
            /\ pc'[p] = "enf_ret" /\ err'[p] # ErrNil
                 => /\ err'[p] = ErrBackend
                    /\ calls'[p] = <<>>
                    /\ cache' = cache /\ policy' = policy /\ writer' = writer]_vars

\* The store failed the lookup of a key it holds, and Enforce returned the store's
\* error without an engine call.
C12_Witness ==
  \E p \in Procs :
    /\ pc[p] = "enf_ret" /\ enabled[p] /\ ~NonString(rvals[p])
    /\ err[p] = ErrBackend /\ calls[p] = <<>>
    /\ Has(cache, key[p])

\* C13: in RemovePolicy and RemovePolicies a Delete step never changes the rule
\* set; it goes on (to the next rule or to the engine's removal) only when the key
\* is then absent from the store, and otherwise ends the call with the store's
\* error.  A call returns without having invoked the engine's removal only with the
\* store's error, and a call that returns the store's error has not invoked it.
C13_DeleteErrorFailsClosed ==
  /\ [](\A p \in Procs :
          pc[p] \in {"rp_ret", "rps_ret"}
            => (calls[p] = <<>>) = (err[p] = ErrBackend /\ enabled[p] /\ ~res[p]))
  /\ [][\A p \in Procs :
          /\ pc[p] = "rp_delete" /\ Moves(p)
               => /\ policy' = policy /\ calls'[p] = <<>>
                  /\ pc'[p] \in {"rp_engine", "rp_ret"}
                  /\ pc'[p] = "rp_engine" => ~Has(cache', key[p]) /\ err'[p] = ErrNil
                  /\ pc'[p] = "rp_ret" => err'[p] = ErrBackend /\ cache' = cache
          /\ LoopMoves(p)
               => /\ policy' = policy /\ calls'[p] = <<>>
                  /\ pc'[p] \in {"rps_loop", "rps_engine", "rps_ret"}
                  /\ pc'[p] # "rps_ret"
                       => /\ ~Has(cache', key'[p]) /\ err'[p] = ErrNil
                          /\ idx'[p] = idx[p] + 1
                          /\ (pc'[p] = "rps_engine") = (idx[p] = Len(rules[p]))
                  /\ pc'[p] = "rps_ret" => err'[p] = ErrBackend /\ cache' = cache]_vars

\* The store failed the Delete of a key it holds and RemovePolicy returned its error
\* without the engine's removal, while another RemovePolicy, whose key the store
\* does not hold, went on to the engine's removal.
C13_Witness ==
  \E p \in Procs, q \in Procs :
    /\ pc[p] = "rp_ret" /\ enabled[p] /\ err[p] = ErrBackend /\ calls[p] = <<>>
    /\ Has(cache, key[p])
    /\ pc[q] = "rp_ret" /\ enabled[q] /\ ~NonString(rvals[q]) /\ Len(calls[q]) = 1
    /\ key[q] # key[p]

\* C14: a LoadPolicy that loaded the flag as enabled reaches the engine's reload
\* only through a Clear step that emptied the store; a Clear step that fails ends
\* the call with the store's error, the rule set untouched and no reload invoked.
C14_ClearBeforeReload ==
  /\ [](\A p \in Procs :
          /\ pc[p] \in {"lp_clear", "lp_reload"} => calls[p] = <<>>
          /\ pc[p] = "lp_ret" => (calls[p] = <<>>) = (err[p] = ErrBackend /\ enabled[p]))
  /\ [][\A p \in Procs :
          /\ pc[p] = "lp_clear" /\ Moves(p)
               => /\ policy' = policy /\ calls'[p] = <<>>
                  /\ pc'[p] \in {"lp_reload", "lp_ret"}
                  /\ pc'[p] = "lp_reload" => cache' = EmptyCache /\ err'[p] = ErrNil
                  /\ pc'[p] = "lp_ret" => err'[p] = ErrBackend /\ cache' = cache
          /\ pc'[p] = "lp_reload" /\ Moves(p)
               => \/ pc[p] = "lp_clear"
                  \/ pc[p] = "idle" /\ ~enabled'[p] /\ enableCache = 0]_vars

\* The store failed the Clear while it held an entry, and LoadPolicy returned the
\* store's error without a reload.
C14_Witness ==
  \E p \in Procs :
    /\ pc[p] = "lp_ret" /\ enabled[p] /\ err[p] = ErrBackend /\ calls[p] = <<>>
    /\ cache # EmptyCache

\* Positions at which the next step of the goroutine is a store operation.
StoreReadPcs == {"enf_get"}
StoreWritePcs == {"enf_set", "inv_clear", "lp_clear", "rp_delete", "rps_loop"}
\* Positions at which the next step of the goroutine is an engine operation.
EnginePcs == {"enf_direct", "enf_engine", "lp_reload", "rp_engine", "rps_engine"}

\* C15: a goroutine about to Get holds the read lock, a goroutine about to Set,
\* Delete or Clear holds the write lock, and no goroutine is at a store operation
\* while another is at a store mutation.
C15_StoreAccessLocked ==
  /\ \A p \in Procs : pc[p] \in StoreReadPcs => p \in readers
  /\ \A p \in Procs : pc[p] \in StoreWritePcs => writer = p
  /\ \A p \in Procs, q \in Procs :
       p # q /\ pc[p] \in StoreWritePcs => pc[q] \notin StoreReadPcs \cup StoreWritePcs

\* C16: a goroutine about to invoke an engine operation holds the lock neither for
\* reading nor for writing; the read lock is held exactly around the Get and the
\* write lock exactly around the Set and InvalidateCache's Clear.
C16_NoLockAcrossEngine ==
  /\ \A p \in Procs : pc[p] \in EnginePcs => p \notin readers /\ writer # p
  /\ \A p \in Procs : (p \in readers) = (pc[p] = "enf_get")
  /\ \A p \in Procs : (writer = p) = (pc[p] \in {"enf_set", "inv_clear"})

\* An Enforce that missed is at its engine call while another goroutine holds the
\* write lock.
C16_Witness ==
  \E p \in Procs, q \in Procs :
    /\ pc[p] = "enf_engine" /\ calls[p] = <<>>
    /\ writer = q /\ q # p

(***************************************************************************)
(* Scheduling.  A goroutine that can take its next step eventually takes   *)
(* it (the Go scheduler runs every runnable goroutine), and a goroutine    *)
(* waiting in RLock or Lock gets the lock if it is free again and again:   *)
(* sync.RWMutex blocks new readers once a writer waits and admits the      *)
(* waiting readers when the writer unlocks.  Starting a call and taking    *)
(* its result are up to the caller, and a data race need not be detected.  *)
(***************************************************************************)
Acquire(p) ==
  \/ getCachedResult_RLock(p)
  \/ setCachedResult_Lock(p)
  \/ InvalidateCache_Lock(p)

Proceed(p) ==
  \/ Enforce_Direct(p)
  \/ getCachedResult_Get(p)
  \/ Enforce_Engine(p)
  \/ setCachedResult_Set(p)
  \/ LoadPolicy_Clear(p)
  \/ LoadPolicy_Reload(p)
  \/ RemovePolicy_Delete(p)
  \/ RemovePolicy_Engine(p)
  \/ RemovePolicies_Loop(p)
  \/ RemovePolicies_Engine(p)
  \/ InvalidateCache_Clear(p)

Fairness == \A p \in Procs : WF_vars(Proceed(p)) /\ SF_vars(Acquire(p))

SpecLive == Init /\ [][Next]_vars /\ Fairness

\* C17: under fair scheduling every call that has been invoked eventually returns,
\* and every lock that has been acquired is eventually released.  (EnableCache is
\* one atomic store that takes no lock: it has no position at which it could wait.)
C17_EveryCallReturns ==
  \A p \in Procs :
    /\ (pc[p] \notin RetPcs \cup {"idle"}) ~> (pc[p] \in RetPcs)
    /\ (writer = p) ~> (writer # p)
    /\ (p \in readers) ~> (p \notin readers)

(***************************************************************************)
(* The Key Builder on its own: every goroutine starts one Enforce, with    *)
(* caching on, for a list of strings drawn from strings with and without   *)
(* the character "$".                                                      *)
(***************************************************************************)
PlainStrings == {"", "a"}
DollarStrings == {"$", "$$"}
KeyRequests == {ToValues(r) : r \in SeqsUpTo(PlainStrings \cup DollarStrings, MaxKeyLen)}

NextKey == \E p \in Procs : \E params \in KeyRequests : Enforce_Call(p, params)

\* The rule set plays no part in the key: it is empty here.
InitKey == Init /\ policy = {}

SpecKey == InitKey /\ [][NextKey]_vars

Plain(params) == \A i \in 1..Len(params) : params[i].v \in PlainStrings

\* C18: two Enforce calls whose string-only parameter lists got the same key have
\* the same parameter list.
C18_KeyInjective ==
  \A p \in Procs, q \in Procs :
    pc[p] = "enf_rlock" /\ pc[q] = "enf_rlock" /\ key[p] = key[q]
      => rvals[p] = rvals[q]

\* C18 (amended): two Enforce calls whose parameters are strings without the
\* character "$" and that got the same key have the same parameter list.
C18_KeyInjectiveWithoutDollar ==
  \A p \in Procs, q \in Procs :
    /\ pc[p] = "enf_rlock" /\ pc[q] = "enf_rlock"
    /\ Plain(rvals[p]) /\ Plain(rvals[q])
    /\ key[p] = key[q]
    => rvals[p] = rvals[q]

\* Two lists of different lengths, made of empty strings only, got different keys.
C18_Witness ==
  \E p \in Procs, q \in Procs :
    /\ pc[p] = "enf_rlock" /\ pc[q] = "enf_rlock"
    /\ Len(rvals[p]) = 1 /\ Len(rvals[q]) = 2
    /\ \A i \in 1..Len(rvals[p]) : rvals[p][i].v = ""
    /\ \A i \in 1..Len(rvals[q]) : rvals[q][i].v = ""
    /\ key[p] # key[q]

\* The step removes no entry but those under the keys in K and changes no entry
\* it leaves.
RemovesOnly(K) ==
  /\ DOMAIN cache \ DOMAIN cache' \subseteq K
  /\ \A k \in DOMAIN cache \cap DOMAIN cache' : cache'[k] = cache[k]
  /\ DOMAIN cache' \subseteq DOMAIN cache

\* C19: a Delete step of RemovePolicy(p) removes at most the entry under the key of
\* p, and a Delete step of RemovePolicies(rules) at most entries under the keys of
\* the rules of the batch; every other entry stays as it is.
C19_RemovesOnlyItsKeys ==
  [][\A p \in Procs :
       /\ pc[p] = "rp_delete" /\ Moves(p) => RemovesOnly({getKey(rvals[p]).key})
       /\ LoopMoves(p) => RemovesOnly(BatchKeys(rules[p]))]_vars

\* C20: RemovePolicies never stops with an index out of range on its parameter
\* buffer.
C20_RemovePoliciesNoFault == fault # "index out of range"

=============================================================================
